---- MODULE Spec2Model ----
(***************************************************************************)
(* Model of the Mini-DeFi local RAG server (scripts/local_rag_server.py)   *)
(* and of the thread benchmark driver (scripts/bench_threads.py).          *)
(*                                                                         *)
(* Text is modelled as a sequence of one-character strings, so that        *)
(* str.strip, str.split, str.join and str.startswith are computed on the   *)
(* characters.  The embedder, the FAISS index and the LLM are external:    *)
(* their answers are nondeterministic inputs of the handlers, restricted   *)
(* to what the libraries can return.                                       *)
(***************************************************************************)
EXTENDS Integers, Sequences, FiniteSets, TLC

\* ------------------------------------------------------------------------
\* Bounds of the model
\* ------------------------------------------------------------------------
KBLen == 1        \* number of KNOWLEDGE_BASE entries kept in the model
MaxTopK == 3      \* largest top_k sent to /retrieve
MaxRuns == 2      \* largest --runs of the benchmark

\* ------------------------------------------------------------------------
\* Program constants
\* ------------------------------------------------------------------------
MinSectionLen == 50   \* len(content) > 50
ChatTopK == 3         \* retrieve(query, top_k=3)
FillerScore == -1     \* stands for the -3.4e38 FAISS reports in unfilled slots

None == "None"

\* ------------------------------------------------------------------------
\* Text helpers (Python str methods)
\* ------------------------------------------------------------------------
Whitespace == {" ", "\n", "\t"}

Rep(c, n) == [i \in 1..n |-> c]

Min(a, b) == IF a < b THEN a ELSE b

RECURSIVE LStrip(_)
LStrip(s) ==
    IF s # <<>> /\ Head(s) \in Whitespace THEN LStrip(Tail(s)) ELSE s

RECURSIVE RStrip(_)
RStrip(s) ==
    IF s # <<>> /\ s[Len(s)] \in Whitespace
    THEN RStrip(SubSeq(s, 1, Len(s) - 1))
    ELSE s

\* str.strip()
Strip(s) == RStrip(LStrip(s))

\* str.startswith(prefix)
StartsWith(s, prefix) ==
    /\ Len(s) >= Len(prefix)
    /\ SubSeq(s, 1, Len(prefix)) = prefix

RECURSIVE SplitFrom(_, _)
\* the pieces of s from position start on, cut at each newline
SplitFrom(s, start) ==
    LET nls == {i \in start..Len(s) : s[i] = "\n"}
        e == CHOOSE i \in nls : \A j \in nls : i <= j
    IN  IF nls = {} THEN <<SubSeq(s, start, Len(s))>>
        ELSE <<SubSeq(s, start, e - 1)>> \o SplitFrom(s, e + 1)

\* content.split('\n')
Split(s) == SplitFrom(s, 1)

RECURSIVE Join(_, _)
\* sep.join(parts)
Join(parts, sep) ==
    IF parts = <<>> THEN <<>>
    ELSE IF Len(parts) = 1 THEN parts[1]
    ELSE parts[1] \o sep \o Join(Tail(parts), sep)

\* ------------------------------------------------------------------------
\* Knowledge base and markdown documents
\* ------------------------------------------------------------------------
Digits == <<"1", "2", "3", "4", "5", "6", "7", "8", "9">>

\* The hard-coded list of {title, content}; the model keeps KBLen entries.
KNOWLEDGE_BASE ==
    [i \in 1..KBLen |->
        [title |-> <<"K", Digits[i]>>, content |-> <<"c", Digits[i]>>]]

Heading(t) == <<"#", "#", " ">> \o t
LongBody == Rep("x", MinSectionLen + 1)
EdgeBody == Rep("x", MinSectionLen)

\* The markdown files rag_docs may hold.
FileA ==
    [stem |-> <<"a">>, readable |-> TRUE,
     content |-> Join(<< <<"i", "n">>, Heading(<<"A">>), LongBody,
                         Heading(<<"B", " ">>), <<" ">> \o EdgeBody \o <<" ">>,
                         <<>> >>, <<"\n">>)]

FileB ==
    [stem |-> <<"b">>, readable |-> TRUE,
     content |-> Join(<< Heading(<<"A">>), <<"o", "k">>, Heading(<<>>) >>,
                      <<"\n">>)]

FileC ==
    [stem |-> <<"c">>, readable |-> TRUE,
     content |-> Join(<< Heading(<<"K", "1">>), <<>>, LongBody, <<"\t">> >>,
                      <<"\n">>)]

FileD ==
    [stem |-> <<"d">>, readable |-> FALSE,
     content |-> Join(<< Heading(<<"D">>), LongBody >>, <<"\n">>)]

\* The directories the process may find: absent, empty, or holding files
\* (listed in file-name order, as sorted(DOCS_DIR.glob("*.md")) gives them).
DocsDirs ==
    {[exists |-> FALSE, files |-> <<>>]} \cup
    {[exists |-> TRUE, files |-> fs] :
        fs \in {<<>>, <<FileA>>, <<FileC>>, <<FileA, FileB>>, <<FileB, FileD>>}}

Section(title, content) ==
    [title |-> title, content |-> Join(content, <<"\n">>)]

RECURSIVE ScanLinesNoFlush(_, _, _, _, _)
\* as ScanLines, but the section open at the end of the file is dropped
ScanLinesNoFlush(lines, i, current_title, current_content, sections) ==
    IF i > Len(lines) THEN sections
    ELSE IF StartsWith(lines[i], <<"#", "#", " ">>)
    THEN ScanLinesNoFlush(lines, i + 1,
                   Strip(SubSeq(lines[i], 4, Len(lines[i]))), <<>>,
                   IF current_content # <<>>
                   THEN Append(sections, Section(current_title, current_content))
                   ELSE sections)
    ELSE ScanLinesNoFlush(lines, i + 1, current_title,
                   Append(current_content, lines[i]), sections)

RECURSIVE ScanLines(_, _, _, _, _)
\* the for-loop over the lines of one file and the flush of the last section
ScanLines(lines, i, current_title, current_content, sections) ==
    IF i > Len(lines)
    THEN IF current_content # <<>>
         THEN Append(sections, Section(current_title, current_content))
         ELSE sections
    ELSE IF StartsWith(lines[i], <<"#", "#", " ">>)
    THEN ScanLines(lines, i + 1,
                   Strip(SubSeq(lines[i], 4, Len(lines[i]))), <<>>,
                   IF current_content # <<>>
                   THEN Append(sections, Section(current_title, current_content))
                   ELSE sections)
    ELSE ScanLines(lines, i + 1, current_title,
                   Append(current_content, lines[i]), sections)

\* the sections of one file; a file that cannot be read contributes nothing
FileSections(f) ==
    IF f.readable THEN ScanLines(Split(f.content), 1, f.stem, <<>>, <<>>)
    ELSE <<>>

RECURSIVE ExtendDocs(_, _)
ExtendDocs(files, i) ==
    IF i > Len(files) THEN <<>>
    ELSE FileSections(files[i]) \o ExtendDocs(files, i + 1)

load_markdown_docs(dir) ==
    IF dir.exists THEN ExtendDocs(dir.files, 1) ELSE <<>>

\* ------------------------------------------------------------------------
\* Process state
\* ------------------------------------------------------------------------
VARIABLES
    pc,              \* the server process: "start", "serving" (run by
                     \* __main__), "imported" (served by an importer), "exited"
    llm,             \* global llm: None or the loaded model
    embed_model,     \* global embed_model: None or the loaded embedder
    index,           \* global index: None or the FAISS index (its vector count)
    chunks,          \* global chunks: the chunk texts
    chunk_metadata,  \* global chunk_metadata: {title, source} per chunk
    docsDir,         \* the rag_docs directory found on disk
    modelExists,     \* whether the GGUF model file exists
    req,             \* the request handled last
    resp,            \* the response sent last
    trace,           \* what the last handler did: calls made, search output,
                     \* retrieved chunks, generator input, failure raised
    docs,            \* what load_markdown_docs() returned to a direct caller
    bpc,             \* benchmark driver: "check", "loop", "summary" or "exited"
    bi,              \* benchmark driver: position in thread_counts
    runs,            \* benchmark driver: args.runs
    results,         \* benchmark driver: the results list
    blog             \* benchmark driver: candidates visited, candidates
                     \* failed, and the recommendation

vars == <<pc, llm, embed_model, index, chunks, chunk_metadata, docsDir,
          modelExists, req, resp, trace, docs, bpc, bi, runs, results,
          blog>>

serverVars == <<pc, llm, embed_model, index, chunks, chunk_metadata, docsDir,
                modelExists, req, resp, trace, docs>>

benchVars == <<bpc, bi, runs, results, blog>>

\* index = None, and the index object with ntotal vectors
NoIndex == [isNone |-> TRUE, ntotal |-> 0]
IndexFlatIP(n) == [isNone |-> FALSE, ntotal |-> n]

\* the module globals as one value
Globals ==
    [llm |-> llm, embed_model |-> embed_model, index |-> index,
     chunks |-> chunks, chunk_metadata |-> chunk_metadata]

\* The external calls that may raise an exception.
FailPoints ==
    {"SentenceTransformer", "encode_chunks", "IndexFlatIP", "normalize_L2",
     "index.add", "encode_query", "normalize_query", "index.search",
     "from_pretrained", "llm"}

Fails == FailPoints \cup {"none"}

\* Outcome of a call: the globals it leaves, how it ended, what it returned,
\* and which functions ran.
Ok(g, calls, ret) ==
    [g |-> g, exc |-> "none", msg |-> "", calls |-> calls, ret |-> ret]

Raise(g, calls, m) ==
    [g |-> g, exc |-> "Exception", msg |-> m, calls |-> calls, ret |-> <<>>]

SysExit(g, calls) ==
    [g |-> g, exc |-> "SystemExit", msg |-> "1", calls |-> calls, ret |-> <<>>]

\* ------------------------------------------------------------------------
\* RAG components
\* ------------------------------------------------------------------------
init_embedding_model(g, fail) ==
    IF g.embed_model # None THEN Ok(g, {"init_embedding_model"}, <<>>)
    ELSE IF fail = "SentenceTransformer"
    THEN Raise(g, {"init_embedding_model"}, fail)
    ELSE Ok([g EXCEPT !.embed_model = "all-MiniLM-L6-v2"],
            {"init_embedding_model"}, <<>>)

\* f"{doc['title']}\n{content}"
ChunkText(title, content) == title \o <<"\n">> \o content

\* as Qualifies, but a body of exactly the minimum length is kept too
QualifiesAtLeast(doc) == Len(Strip(doc.content)) >= MinSectionLen

\* if len(content) > 50
Qualifies(doc) == Len(Strip(doc.content)) > MinSectionLen

RECURSIVE DocChunks(_, _)
DocChunks(md_docs, i) ==
    IF i > Len(md_docs) THEN <<>>
    ELSE (IF Qualifies(md_docs[i])
          THEN <<ChunkText(md_docs[i].title, Strip(md_docs[i].content))>>
          ELSE <<>>) \o DocChunks(md_docs, i + 1)

RECURSIVE DocMetadata(_, _)
DocMetadata(md_docs, i) ==
    IF i > Len(md_docs) THEN <<>>
    ELSE (IF Qualifies(md_docs[i])
          THEN <<[title |-> md_docs[i].title, source |-> "docs"]>>
          ELSE <<>>) \o DocMetadata(md_docs, i + 1)

\* chunks after the two loops of init_vector_store
BuildChunks(dir) ==
    [i \in 1..Len(KNOWLEDGE_BASE) |->
        ChunkText(KNOWLEDGE_BASE[i].title, KNOWLEDGE_BASE[i].content)]
    \o DocChunks(load_markdown_docs(dir), 1)

\* chunk_metadata after the two loops of init_vector_store
BuildMetadata(dir) ==
    [i \in 1..Len(KNOWLEDGE_BASE) |->
        [title |-> KNOWLEDGE_BASE[i].title, source |-> "builtin"]]
    \o DocMetadata(load_markdown_docs(dir), 1)

\* as IndexBuilt, but the guard never fires
NeverBuilt(g) == FALSE

\* if index is not None: return index
IndexBuilt(g) == ~g.index.isNone

init_vector_store(g, dir, fail) ==
    IF IndexBuilt(g) THEN Ok(g, {"init_vector_store"}, <<>>)
    ELSE
    LET r1 == init_embedding_model(g, fail)
        cl == {"init_vector_store", "init_embedding_model", "load_markdown_docs"}
        g2 == [r1.g EXCEPT !.chunks = BuildChunks(dir),
                           !.chunk_metadata = BuildMetadata(dir)]
        g3 == [g2 EXCEPT !.index = IndexFlatIP(0)]
        g4 == [g2 EXCEPT !.index = IndexFlatIP(Len(g2.chunks))]
    IN  IF r1.exc # "none"
        THEN [r1 EXCEPT !.calls = {"init_vector_store", "init_embedding_model"}]
        ELSE IF fail \in {"encode_chunks", "IndexFlatIP"} THEN Raise(g2, cl, fail)
        ELSE IF fail \in {"normalize_L2", "index.add"} THEN Raise(g3, cl, fail)
        ELSE Ok(g4, cl, <<>>)

\* chunks[idx] / chunk_metadata[idx] with Python's negative indexing
InRange(seq, idx) == idx < Len(seq) /\ idx >= -Len(seq)

PyGet(seq, idx) == IF idx >= 0 THEN seq[idx + 1] ELSE seq[Len(seq) + idx + 1]

\* if idx < len(chunks)
Keep(idx, cs) == idx < Len(cs)

\* the slots of indices[0] that pass the guard, in the order reported
KeptSlots(out, cs) ==
    LET Test(i) == Keep(out.labels[i], cs)
    IN  SelectSeq([i \in 1..Len(out.labels) |-> i], Test)

\* as RetrieveResults, but each result is inserted in front of the list
RetrieveResultsReversed(out, cs, md) ==
    LET kept == KeptSlots(out, cs)
    IN  [j \in 1..Len(kept) |->
            [content |-> PyGet(cs, out.labels[kept[Len(kept) + 1 - j]]),
             score |-> out.scores[kept[Len(kept) + 1 - j]],
             metadata |-> PyGet(md, out.labels[kept[Len(kept) + 1 - j]])]]

\* the loop over indices[0] that assembles the results
RetrieveResults(out, cs, md) ==
    LET kept == KeptSlots(out, cs)
    IN  [j \in 1..Len(kept) |->
            [content |-> PyGet(cs, out.labels[kept[j]]),
             score |-> out.scores[kept[j]],
             metadata |-> PyGet(md, out.labels[kept[j]])]]

\* a kept position outside both lists raises IndexError
HasIndexError(out, cs, md) ==
    \E i \in 1..Len(out.labels) :
        /\ Keep(out.labels[i], cs)
        /\ ~(InRange(cs, out.labels[i]) /\ InRange(md, out.labels[i]))

\* What index.search(q, k) can report for an index of n vectors: k slots,
\* the first min(k, n) hold distinct stored positions, best first (scores
\* strictly decreasing, or all tied), the others hold label -1 and the
\* lowest score.
SearchOutputs(n, k) ==
    LET m == Min(k, n)
        ranks == {f \in [1..m -> 0..(n - 1)] :
                     \A a, b \in 1..m : a # b => f[a] # f[b]}
        scs == {[i \in 1..m |-> m - i], [i \in 1..m |-> 0]}
    IN  {[labels |-> [i \in 1..k |-> IF i <= m THEN r[i] ELSE -1],
          scores |-> [i \in 1..k |-> IF i <= m THEN sc[i] ELSE FillerScore]] :
            r \in ranks, sc \in scs}

NoSearch == [labels |-> <<>>, scores |-> <<>>]

\* retrieve up to the search: lazy build, embedder, query embedding
retrieve_prepare(g, dir, fail) ==
    LET r0 == IF g.index.isNone THEN init_vector_store(g, dir, fail)
              ELSE Ok(g, {}, <<>>)
        r1 == init_embedding_model(r0.g, fail)
        cl == {"retrieve", "init_embedding_model"} \cup r0.calls
    IN  IF r0.exc # "none" THEN [r0 EXCEPT !.calls = r0.calls \cup {"retrieve"}]
        ELSE IF r1.exc # "none" THEN [r1 EXCEPT !.calls = cl]
        ELSE IF fail \in {"encode_query", "normalize_query", "index.search"}
        THEN Raise(r1.g, cl, fail)
        ELSE Ok(r1.g, cl, <<>>)

\* retrieve(query, top_k) when the index reports out
retrieve(g, dir, query, top_k, fail, out) ==
    LET p == retrieve_prepare(g, dir, fail)
    IN  IF p.exc # "none" THEN p
        ELSE IF HasIndexError(out, p.g.chunks, p.g.chunk_metadata)
        THEN Raise(p.g, p.calls, "list index out of range")
        ELSE Ok(p.g, p.calls,
                RetrieveResults(out, p.g.chunks, p.g.chunk_metadata))

init_llm(g, fail) ==
    IF g.llm # None THEN Ok(g, {"init_llm"}, <<>>)
    ELSE IF ~modelExists THEN SysExit(g, {"init_llm"})
    ELSE IF fail = "from_pretrained" THEN Raise(g, {"init_llm"}, fail)
    ELSE Ok([g EXCEPT !.llm = "mistral"], {"init_llm"}, <<>>)

\* context = "\n\n---\n\n".join([c["content"] for c in context_chunks])
Context(context_chunks) ==
    Join([i \in 1..Len(context_chunks) |-> context_chunks[i].content],
         <<"\n", "\n", "-", "-", "-", "\n", "\n">>)

\* as Trimmed, but only the right end is stripped
RightTrimmed(completion) == RStrip(completion)

\* return response.strip()
Trimmed(completion) == Strip(completion)

\* generate_response(query, context_chunks) when the LLM answers completion;
\* ret is the prompt's context, its question and the returned text
generate_response(g, query, context_chunks, fail, completion) ==
    LET r0 == IF g.llm = None THEN init_llm(g, fail) ELSE Ok(g, {}, <<>>)
        cl == {"generate_response"} \cup r0.calls
    IN  IF r0.exc # "none" THEN [r0 EXCEPT !.calls = cl]
        ELSE IF fail = "llm" THEN Raise(r0.g, cl \cup {"llm"}, fail)
        ELSE Ok(r0.g, cl \cup {"llm"},
                [context |-> Context(context_chunks), question |-> query,
                 response |-> Trimmed(completion)])

\* ------------------------------------------------------------------------
\* Requests, responses and the record of the last handler
\* ------------------------------------------------------------------------
\* JSON bodies: the field is missing, or present with some text
Fields ==
    {[present |-> FALSE, text |-> <<>>]} \cup
    {[present |-> TRUE, text |-> t] :
        t \in {<<>>, <<" ">>, <<"\t", "\n">>, <<" ", "a", " ">>}}

\* completions the LLM may produce
Completions == {<<" ">>, <<"a">>, <<" ", "a", "\n">>}

NoReq == [endpoint |-> "none", field |-> [present |-> FALSE, text |-> <<>>],
          top_k |-> 0]

NoResp == [status |-> 0, error |-> "", response |-> <<>>, sources |-> <<>>,
           results |-> <<>>]

ErrorResp(status, m) == [NoResp EXCEPT !.status = status, !.error = m]

NoGen == [called |-> FALSE, completion |-> <<>>, context |-> <<>>,
          question |-> <<>>]

NoDocs == [called |-> FALSE, list |-> <<>>]

NoTrace == [calls |-> {}, searched |-> FALSE, out |-> NoSearch,
            retrieved |-> <<>>, gen |-> NoGen, exc |-> "none", msg |-> ""]

SetGlobals(g) ==
    /\ llm' = g.llm
    /\ embed_model' = g.embed_model
    /\ index' = g.index
    /\ chunks' = g.chunks
    /\ chunk_metadata' = g.chunk_metadata

\* the search outputs the index can give in this handler, if it gets that far
OutputsFor(p, top_k) ==
    IF p.exc = "none" THEN SearchOutputs(p.g.index.ntotal, top_k)
    ELSE {NoSearch}

\* the chosen failure point was reached (a point never reached is no failure)
Fired(fail, r) == fail = "none" \/ (r.exc = "Exception" /\ r.msg = fail)

\* data.get(key, "").strip()
FieldText(field) == Strip(IF field.present THEN field.text ELSE <<>>)

\* as Sources, but a title is listed only the first time it occurs
SourcesDeduped(context_chunks) ==
    LET First(i) == \A j \in 1..(i - 1) :
                        context_chunks[j].metadata.title
                            # context_chunks[i].metadata.title
        firsts == SelectSeq([i \in 1..Len(context_chunks) |-> i], First)
    IN  [k \in 1..Len(firsts) |-> context_chunks[firsts[k]].metadata.title]

\* [c["metadata"]["title"] for c in context_chunks]
Sources(context_chunks) ==
    [i \in 1..Len(context_chunks) |-> context_chunks[i].metadata.title]

\* ------------------------------------------------------------------------
\* Start of the process
\* ------------------------------------------------------------------------
\* python scripts/local_rag_server.py: the __main__ block pre-initializes the
\* three components and then runs the app; an exception or sys.exit ends
\* the process before it serves.
Main ==
    /\ pc = "start"
    /\ \E fail \in Fails :
       \E r1 \in {init_embedding_model(Globals, fail)} :
       \E r2 \in {init_vector_store(r1.g, docsDir, fail)} :
       \E r3 \in {init_llm(r2.g, fail)} :
       \E r \in {IF r1.exc # "none" THEN r1
                 ELSE IF r2.exc # "none" THEN r2 ELSE r3} :
            /\ Fired(fail, r) \/ r.exc = "SystemExit"
            /\ SetGlobals(r.g)
            /\ pc' = IF r.exc = "none" THEN "serving" ELSE "exited"
            /\ trace' = [NoTrace EXCEPT !.calls = r1.calls \cup r.calls,
                                        !.exc = r.exc, !.msg = r.msg]
    /\ UNCHANGED <<docsDir, modelExists, req, resp, benchVars, docs>>

\* The module is imported and its app object is served by the importer
\* (a WSGI host or a test client): nothing is pre-initialized, the lazy
\* guards of retrieve and generate_response do the initialization.
ImportApp ==
    /\ pc = "start"
    /\ pc' = "imported"
    /\ UNCHANGED <<llm, embed_model, index, chunks, chunk_metadata, docsDir,
                   modelExists, req, resp, trace, benchVars, docs>>

\* ------------------------------------------------------------------------
\* Flask API
\* ------------------------------------------------------------------------
\* the app is handling requests
Serving == pc \in {"serving", "imported"}

health ==
    /\ Serving
    /\ req' = [NoReq EXCEPT !.endpoint = "/health"]
    /\ resp' = [NoResp EXCEPT !.status = 200]
    /\ trace' = NoTrace
    /\ UNCHANGED <<pc, llm, embed_model, index, chunks, chunk_metadata, docsDir,
                   modelExists, benchVars, docs>>

\* as ChatQuery, but without the strip
ChatQueryUnstripped(field) == IF field.present THEN field.text ELSE <<>>

\* query = data.get("message", "").strip()
ChatQuery(field) == FieldText(field)

\* the part of chat inside try/except, for a non-blank query
ChatAnswer(field, query) ==
    \E fail \in Fails :
    \E p \in {retrieve_prepare(Globals, docsDir, fail)} :
      /\ fail \in {"none", "from_pretrained", "llm"} \/ p.exc # "none"
      /\ \E out \in OutputsFor(p, ChatTopK) :
         \E r1 \in {retrieve(Globals, docsDir, query, ChatTopK, fail, out)} :
         \E completion \in (IF fail = "none" THEN Completions ELSE {<<>>}) :
         \E r2 \in {generate_response(r1.g, query, r1.ret, fail, completion)} :
         \E r \in {IF r1.exc # "none" THEN r1
                   ELSE [r2 EXCEPT !.calls = r1.calls \cup r2.calls]} :
            /\ Fired(fail, r) \/ r.exc = "SystemExit"
            /\ SetGlobals(r.g)
            /\ pc' = IF r.exc = "SystemExit" THEN "exited" ELSE pc
            /\ resp' =
                 IF r.exc = "none"
                 THEN [NoResp EXCEPT !.status = 200,
                                     !.response = r.ret.response,
                                     !.sources = Sources(r1.ret)]
                 ELSE IF r.exc = "Exception" THEN ErrorResp(500, r.msg)
                 ELSE NoResp
            /\ trace' =
                 [calls |-> r.calls,
                  searched |-> r1.exc = "none",
                  out |-> IF r1.exc = "none" THEN out ELSE NoSearch,
                  retrieved |-> r1.ret,
                  gen |-> IF r.exc = "none"
                          THEN [called |-> TRUE, completion |-> completion,
                                context |-> r.ret.context,
                                question |-> r.ret.question]
                          ELSE NoGen,
                  exc |-> r.exc, msg |-> r.msg]

chat ==
    /\ Serving
    /\ \E field \in Fields :
        /\ req' = [endpoint |-> "/chat", field |-> field, top_k |-> ChatTopK]
        /\ IF ChatQuery(field) = <<>>
           THEN /\ resp' = ErrorResp(400, "No message provided")
                /\ trace' = NoTrace
                /\ UNCHANGED <<pc, llm, embed_model, index, chunks,
                               chunk_metadata>>
           ELSE ChatAnswer(field, ChatQuery(field))
    /\ UNCHANGED <<docsDir, modelExists, benchVars, docs>>

\* the part of retrieve_only inside try/except, for a non-blank query
RetrieveAnswer(query, top_k) ==
    \E fail \in Fails \ {"from_pretrained", "llm"} :
    \E p \in {retrieve_prepare(Globals, docsDir, fail)} :
      /\ Fired(fail, p)
      /\ \E out \in OutputsFor(p, top_k) :
         \E r \in {retrieve(Globals, docsDir, query, top_k, fail, out)} :
            /\ SetGlobals(r.g)
            /\ resp' = IF r.exc = "none"
                       THEN [NoResp EXCEPT !.status = 200, !.results = r.ret]
                       ELSE ErrorResp(500, r.msg)
            /\ trace' = [NoTrace EXCEPT
                            !.calls = r.calls,
                            !.searched = r.exc = "none",
                            !.out = IF r.exc = "none" THEN out ELSE NoSearch,
                            !.retrieved = r.ret,
                            !.exc = r.exc, !.msg = r.msg]

retrieve_only ==
    /\ Serving
    /\ \E field \in Fields, top_k \in 1..MaxTopK :
        /\ req' = [endpoint |-> "/retrieve", field |-> field, top_k |-> top_k]
        /\ IF FieldText(field) = <<>>
           THEN /\ resp' = ErrorResp(400, "No query provided")
                /\ trace' = NoTrace
                /\ UNCHANGED <<llm, embed_model, index, chunks, chunk_metadata>>
           ELSE RetrieveAnswer(FieldText(field), top_k)
    /\ UNCHANGED <<pc, docsDir, modelExists, benchVars, docs>>

\* The importer calls init_vector_store() itself (the build step called
\* directly, possibly again); an exception goes to the caller.
init_vector_store_with(fails) ==
    /\ pc = "imported"
    /\ \E fail \in fails :
       \E r \in {init_vector_store(Globals, docsDir, fail)} :
            /\ Fired(fail, r)
            /\ SetGlobals(r.g)
            /\ req' = [NoReq EXCEPT !.endpoint = "init_vector_store()"]
            /\ resp' = NoResp
            /\ trace' = [NoTrace EXCEPT !.calls = r.calls, !.exc = r.exc,
                                        !.msg = r.msg]
    /\ UNCHANGED <<pc, docsDir, modelExists, benchVars, docs>>

init_vector_store_call ==
    init_vector_store_with({"none", "SentenceTransformer", "encode_chunks",
                            "IndexFlatIP", "normalize_L2", "index.add"})

\* ------------------------------------------------------------------------
\* Specification of the server
\* ------------------------------------------------------------------------
NoBest == [threads |-> 0]

BenchIdle ==
    /\ bpc = "idle"
    /\ bi = 0
    /\ runs = 0
    /\ results = <<>>
    /\ blog = [visited |-> <<>>, failed |-> {}, best |-> NoBest]

Init ==
    /\ pc = "start"
    /\ llm = None
    /\ embed_model = None
    /\ index = NoIndex
    /\ chunks = <<>>
    /\ chunk_metadata = <<>>
    /\ docsDir \in DocsDirs
    /\ modelExists \in BOOLEAN
    /\ req = NoReq
    /\ resp = NoResp
    /\ trace = NoTrace
    /\ docs = NoDocs
    /\ BenchIdle

Next ==
    Main \/ ImportApp \/ health \/ chat \/ retrieve_only \/ init_vector_store_call

Spec == Init /\ [][Next]_vars

\* ------------------------------------------------------------------------
\* Benchmark driver (scripts/bench_threads.py)
\* ------------------------------------------------------------------------
thread_counts == <<4, 6, 8, 10, 12>>

\* wall-clock durations a run may take, and the word count of an output
Durations == {1, 2}
OutputTokens == 2

BenchFails == {"none", "Llama", "warmup", "run"}

RECURSIVE Sum(_)
Sum(seq) == IF seq = <<>> THEN 0 ELSE Head(seq) + Sum(Tail(seq))

SeqMin(seq) == CHOOSE x \in {seq[i] : i \in 1..Len(seq)} :
                   \A i \in 1..Len(seq) : x <= seq[i]

SeqMax(seq) == CHOOSE x \in {seq[i] : i \in 1..Len(seq)} :
                   \A i \in 1..Len(seq) : x >= seq[i]

\* a quotient a / b, kept exact
Ratio(a, b) == [num |-> a, den |-> b]

Less(x, y) == x.num * y.den < y.num * x.den

\* benchmark(n_threads, runs) when the timed runs take the durations times
benchmark(n_threads, n_runs, fail, times) ==
    IF fail \in {"Llama", "warmup"} \/ (fail = "run" /\ n_runs > 0)
    THEN [exc |-> "Exception", msg |-> fail, ret |-> NoBest]
    ELSE IF Len(times) = 0
    THEN [exc |-> "Exception", msg |-> "division by zero", ret |-> NoBest]
    ELSE [exc |-> "none", msg |-> "",
          ret |-> [threads |-> n_threads,
                   avg_time |-> Ratio(Sum(times), Len(times)),
                   min_time |-> SeqMin(times),
                   max_time |-> SeqMax(times),
                   avg_speed |-> Ratio(OutputTokens * Len(times), Sum(times))]]

\* as LoopResults, but a failed candidate discards the results collected so far
LoopResultsReset(res, outcome) ==
    IF outcome.exc = "none" THEN Append(res, outcome.ret) ELSE <<>>

\* try: results.append(benchmark(n, args.runs))  except Exception: print
LoopResults(res, outcome) ==
    IF outcome.exc = "none" THEN Append(res, outcome.ret) ELSE res

\* the position after the body of the for loop, whatever the outcome
LoopAdvance(i, outcome) == i + 1

RECURSIVE Best(_, _, _)
\* the summary loop: the first result with the lowest average time
Best(res, i, best) ==
    IF i > Len(res) THEN best
    ELSE IF best = NoBest \/ Less(res[i].avg_time, best.avg_time)
    THEN Best(res, i + 1, res[i])
    ELSE Best(res, i + 1, best)

\* if not Path(model_path).exists(): sys.exit(1)
BenchCheckModel ==
    /\ bpc = "check"
    /\ bpc' = IF modelExists THEN "loop" ELSE "exited"
    /\ UNCHANGED <<bi, runs, results, blog, serverVars>>

\* one iteration of: for n in thread_counts
BenchStep ==
    /\ bpc = "loop"
    /\ bi <= Len(thread_counts)
    /\ \E fail \in BenchFails, times \in [1..runs -> Durations] :
       \E outcome \in {benchmark(thread_counts[bi], runs, fail, times)} :
            /\ fail = "none" \/ outcome.msg = fail
            /\ results' = LoopResults(results, outcome)
            /\ bi' = LoopAdvance(bi, outcome)
            /\ blog' = [blog EXCEPT
                          !.visited = Append(@, thread_counts[bi]),
                          !.failed = IF outcome.exc = "none" THEN @
                                     ELSE @ \cup {thread_counts[bi]}]
    /\ UNCHANGED <<bpc, runs, serverVars>>

\* the summary table and the recommendation
BenchSummary ==
    /\ bpc = "loop"
    /\ bi > Len(thread_counts)
    /\ bpc' = "summary"
    /\ blog' = [blog EXCEPT !.best = Best(results, 1, NoBest)]
    /\ UNCHANGED <<bi, runs, results, serverVars>>

BenchInit ==
    /\ pc = "idle"
    /\ llm = None
    /\ embed_model = None
    /\ index = NoIndex
    /\ chunks = <<>>
    /\ chunk_metadata = <<>>
    /\ docsDir = [exists |-> FALSE, files |-> <<>>]
    /\ modelExists \in BOOLEAN
    /\ req = NoReq
    /\ resp = NoResp
    /\ trace = NoTrace
    /\ docs = NoDocs
    /\ bpc = "check"
    /\ bi = 1
    /\ runs \in 0..MaxRuns
    /\ results = <<>>
    /\ blog = [visited |-> <<>>, failed |-> {}, best |-> NoBest]

BenchNext == BenchCheckModel \/ BenchStep \/ BenchSummary

BenchSpec == BenchInit /\ [][BenchNext]_vars

\* ------------------------------------------------------------------------
\* The document store builder on arbitrary markdown files
\* ------------------------------------------------------------------------
MaxLines == 5     \* most lines of the markdown file

\* the lines a markdown file is made of: two headings (one with a trailing
\* blank), a long body line, a line that is long only with its blanks, and
\* the empty line
MdLines ==
    {Heading(<<"A">>), Heading(<<"B", " ">>), LongBody,
     <<" ">> \o EdgeBody \o <<" ">>, <<>>}

\* the file m.md holding the given lines (lines is kept beside the content)
MdFile(ls) ==
    [stem |-> <<"m">>, readable |-> TRUE, content |-> Join(ls, <<"\n">>),
     lines |-> ls]

MdDirs ==
    {[exists |-> TRUE, files |-> <<MdFile(ls)>>] :
        ls \in UNION {[1..n -> MdLines] : n \in 1..MaxLines}}

\* The importer calls load_markdown_docs() itself.
load_markdown_docs_call ==
    /\ pc = "imported"
    /\ docs' = [called |-> TRUE, list |-> load_markdown_docs(docsDir)]
    /\ req' = [NoReq EXCEPT !.endpoint = "load_markdown_docs()"]
    /\ resp' = NoResp
    /\ trace' = [NoTrace EXCEPT !.calls = {"load_markdown_docs"}]
    /\ UNCHANGED <<pc, llm, embed_model, index, chunks, chunk_metadata, docsDir,
                   modelExists, benchVars>>

MdInit ==
    /\ pc = "imported"
    /\ llm = None
    /\ embed_model = None
    /\ index = NoIndex
    /\ chunks = <<>>
    /\ chunk_metadata = <<>>
    /\ docsDir \in MdDirs
    /\ modelExists = TRUE
    /\ req = NoReq
    /\ resp = NoResp
    /\ trace = NoTrace
    /\ docs = NoDocs
    /\ BenchIdle

\* the build step called directly, with every library call succeeding
init_vector_store_ok == init_vector_store_with({"none"})

MdNext == load_markdown_docs_call \/ init_vector_store_ok

MdSpec == MdInit /\ [][MdNext]_vars

\* ------------------------------------------------------------------------
\* Properties
\* ------------------------------------------------------------------------
\* a request field that is missing, empty or whitespace-only
BlankField(f) ==
    ~f.present \/ \A i \in 1..Len(f.text) : f.text[i] \in Whitespace

NoEdgeWhitespace(t) ==
    t = <<>> \/ (t[1] \notin Whitespace /\ t[Len(t)] \notin Whitespace)

NonIncreasing(seq) ==
    \A a, b \in 1..Len(seq) : a < b => seq[a] >= seq[b]

\* the strictly increasing maps of 1..m into 1..k
IncreasingMaps(m, k) ==
    {f \in [1..m -> 1..k] : \A a, b \in 1..m : a < b => f[a] < f[b]}

\* the external calls of the build step
BuildFailPoints ==
    {"SentenceTransformer", "encode_chunks", "IndexFlatIP", "normalize_L2",
     "index.add"}

\* the last handler ran init_vector_store and the call returned
BuildCompleted ==
    /\ "init_vector_store" \in trace.calls
    /\ ~(trace.exc = "Exception" /\ trace.msg \in BuildFailPoints)

\* the last handler ran init_vector_store and the build raised
BuildFailed ==
    /\ "init_vector_store" \in trace.calls
    /\ trace.exc = "Exception"
    /\ trace.msg \in BuildFailPoints

ChatOk == req.endpoint = "/chat" /\ resp.status = 200

\* C1: whenever retrieve(query, top_k) returns, it returns at most top_k
\* results, and the results are a sub-list of the slots the index reported,
\* in the reported order (each result carries the score of its slot and,
\* for a slot naming a stored chunk, that chunk's text and metadata); so
\* non-increasing reported scores give non-increasing returned scores.
C1_RetrieveKeepsOrder ==
    trace.searched =>
        LET res == trace.retrieved
            out == trace.out
        IN  /\ Len(res) <= req.top_k
            /\ \E f \in IncreasingMaps(Len(res), Len(out.labels)) :
                 \A j \in 1..Len(res) :
                    /\ res[j].score = out.scores[f[j]]
                    /\ out.labels[f[j]] \in 0..(Len(chunks) - 1) =>
                         /\ res[j].content = chunks[out.labels[f[j]] + 1]
                         /\ res[j].metadata = chunk_metadata[out.labels[f[j]] + 1]
            /\ NonIncreasing(out.scores) =>
                 NonIncreasing([j \in 1..Len(res) |-> res[j].score])

\* a retrieval of two chunks, the second stored chunk ranked first
C1_Witness ==
    /\ trace.searched
    /\ req.endpoint = "/retrieve"
    /\ req.top_k = 2
    /\ trace.out.labels = <<1, 0>>
    /\ Len(trace.retrieved) = 2
    /\ trace.retrieved[1].score > trace.retrieved[2].score

\* C2: a step that handles POST /chat with a missing, empty or
\* whitespace-only message answers 400 with an error text, calls neither the
\* Retriever nor the Generator, and leaves the index, the chunk lists and the
\* model globals as they were.
C2_BlankChatRejected ==
    [][(req'.endpoint = "/chat" /\ BlankField(req'.field)) =>
          /\ resp'.status = 400
          /\ resp'.error # ""
          /\ trace'.calls = {}
          /\ UNCHANGED <<pc, llm, embed_model, index, chunks, chunk_metadata>>
      ]_vars

\* a whitespace-only message rejected by a server whose index is built
C2_Witness ==
    /\ req.endpoint = "/chat"
    /\ req.field = [present |-> TRUE, text |-> <<"\t", "\n">>]
    /\ resp.status = 400
    /\ ~index.isNone

\* C3 (as claimed): after POST /chat with a non-blank message the process is
\* still serving, and a failure raised while handling it was answered with
\* status 500 carrying the failure's message.
C3_ChatFailureIs500 ==
    (req.endpoint = "/chat" /\ ~BlankField(req.field)) =>
        /\ Serving
        /\ trace.exc # "none" => (resp.status = 500 /\ resp.error = trace.msg)

RECURSIVE ContextOf(_, _)
\* the texts of the chunks from position i on, separated by "\n\n---\n\n"
ContextOf(cs, i) ==
    IF i > Len(cs) THEN <<>>
    ELSE IF i = Len(cs) THEN cs[i].content
    ELSE cs[i].content \o <<"\n", "\n", "-", "-", "-", "\n", "\n">>
         \o ContextOf(cs, i + 1)

\* C4: in every 200 response of POST /chat, sources has the length of the
\* list retrieve(message, 3) returned (at most 3), sources[i] is the title
\* of the i-th returned chunk, and the Generator was given the texts of
\* those chunks in that order as its context.
C4_SourcesAreRetrievedTitles ==
    ChatOk =>
        /\ Len(resp.sources) = Len(trace.retrieved)
        /\ Len(resp.sources) <= ChatTopK
        /\ \A i \in 1..Len(resp.sources) :
              resp.sources[i] = trace.retrieved[i].metadata.title
        /\ trace.gen.called
        /\ trace.gen.context = ContextOf(trace.retrieved, 1)

\* an answer whose sources repeat a title
C4_Witness ==
    /\ ChatOk
    /\ Len(resp.sources) >= 2
    /\ resp.sources[1] = resp.sources[2]
    /\ trace.retrieved[1].content # trace.retrieved[2].content

\* C5 (as claimed): every 200 response of POST /chat carries a response that
\* is non-empty and has no leading or trailing whitespace.
C5_ResponseNonEmptyTrimmed ==
    ChatOk => (resp.response # <<>> /\ NoEdgeWhitespace(resp.response))

\* C5 (amended): every 200 response of POST /chat carries a response with no
\* leading or trailing whitespace; it is non-empty exactly when the
\* completion holds a character that is not whitespace.
C5_ResponseTrimmed ==
    ChatOk =>
        /\ NoEdgeWhitespace(resp.response)
        /\ resp.response # <<>> <=>
             \E i \in 1..Len(trace.gen.completion) :
                 trace.gen.completion[i] \notin Whitespace

\* a completion with whitespace at both ends, answered trimmed
C5_Witness ==
    /\ ChatOk
    /\ trace.gen.completion = <<" ", "a", "\n">>
    /\ resp.response = <<"a">>

\* length of s between its first and last non-whitespace characters
TrimmedLen(s) ==
    LET nw == {i \in 1..Len(s) : s[i] \notin Whitespace}
    IN  IF nw = {} THEN 0
        ELSE (CHOOSE i \in nw : \A j \in nw : j <= i)
             - (CHOOSE i \in nw : \A j \in nw : i <= j) + 1

\* number of markdown sections whose trimmed body is longer than 50 characters
QualifyingSections ==
    LET md == load_markdown_docs(docsDir)
    IN  Cardinality({i \in 1..Len(md) : TrimmedLen(md[i].content) > MinSectionLen})

\* C6: after a completed init_vector_store, chunks and chunk_metadata have
\* equal length, the number of knowledge-base entries plus the number of
\* qualifying markdown sections, and chunk i starts with the title that
\* chunk_metadata[i] carries.
C6_ChunkLists ==
    BuildCompleted =>
        /\ Len(chunks) = Len(chunk_metadata)
        /\ Len(chunks) = Len(KNOWLEDGE_BASE) + QualifyingSections
        /\ \A i \in 1..Len(chunks) :
              StartsWith(chunks[i], chunk_metadata[i].title \o <<"\n">>)

\* a build over two files, one section of five qualifying
C6_Witness ==
    /\ BuildCompleted
    /\ docsDir.files = <<FileA, FileB>>
    /\ Len(load_markdown_docs(docsDir)) = 4
    /\ Len(chunks) = Len(KNOWLEDGE_BASE) + 1
    /\ chunk_metadata[Len(chunks)] = [title |-> <<"A">>, source |-> "docs"]

\* C7: once index is not None, no step changes index, chunks or
\* chunk_metadata.
C7_BuiltIsReadOnly ==
    [][~index.isNone =>
          /\ index' = index
          /\ chunks' = chunks
          /\ chunk_metadata' = chunk_metadata
      ]_vars

\* init_vector_store called on a built index returned at its guard
C7_Witness ==
    /\ req.endpoint = "init_vector_store()"
    /\ trace.calls = {"init_vector_store"}
    /\ trace.exc = "none"
    /\ ~index.isNone
    /\ index.ntotal = Len(chunks)
    /\ Len(chunks) > Len(KNOWLEDGE_BASE)

\* the candidates, in order, that are not in the set failed
Survivors(failed) ==
    LET Test(n) == n \notin failed
    IN  SelectSeq(thread_counts, Test)

\* C8: when the benchmark loop is over, every candidate was visited once, in
\* order, and results holds exactly the candidates whose benchmark did not
\* raise, each once, in candidate order.
C8_FailureIsolation ==
    bpc = "summary" =>
        /\ blog.visited = thread_counts
        /\ [i \in 1..Len(results) |-> results[i].threads]
              = Survivors(blog.failed)

\* a run in which the second and fourth candidates failed
C8_Witness ==
    /\ bpc = "summary"
    /\ blog.failed = {6, 10}
    /\ Len(results) = 3
    /\ blog.best.threads # 0

\* C9 (as claimed): while the process serves, a failed build leaves index
\* None, and an index that is not None holds one vector per chunk.
C9_FailedBuildLeavesNoIndex ==
    Serving =>
        /\ BuildFailed => index.isNone
        /\ ~index.isNone => index.ntotal = Len(chunks)

\* C10 (as claimed): a successful /retrieve returns one result per reported slot that names
\* a stored chunk (0..chunk count-1) and none for the other slots, hence at
\* most min(top_k, chunk count) results.
C10_InvalidSlotsSkipped ==
    (req.endpoint = "/retrieve" /\ resp.status = 200) =>
        /\ Len(trace.retrieved)
              = Cardinality({i \in 1..Len(trace.out.labels) :
                                trace.out.labels[i] \in 0..(Len(chunks) - 1)})
        /\ Len(trace.retrieved) <= Min(req.top_k, Len(chunks))

\* the lines of the markdown file under MdSpec
FileLines == docsDir.files[1].lines

IsHeadingLine(l) == Len(l) >= 3 /\ l[1] = "#" /\ l[2] = "#" /\ l[3] = " "

HeadingAt == {i \in 1..Len(FileLines) : IsHeadingLine(FileLines[i])}

\* where the section begun at s (0: the start of the file) ends
NextStart(s) ==
    LET later == {h \in HeadingAt : h > s}
    IN  IF later = {} THEN Len(FileLines) + 1
        ELSE CHOOSE h \in later : \A g \in later : h <= g

RECURSIVE LinesText(_, _)
\* lines a..b of the file, one per line
LinesText(a, b) ==
    IF a > b THEN <<>>
    ELSE IF a = b THEN FileLines[a]
    ELSE FileLines[a] \o <<"\n">> \o LinesText(a + 1, b)

\* t between its first and last non-whitespace characters
TrimmedText(t) ==
    LET nw == {i \in 1..Len(t) : t[i] \notin Whitespace}
    IN  IF nw = {} THEN <<>>
        ELSE SubSeq(t, CHOOSE i \in nw : \A j \in nw : i <= j,
                       CHOOSE i \in nw : \A j \in nw : j <= i)

SectionTitle(s) ==
    IF s = 0 THEN docsDir.files[1].stem
    ELSE TrimmedText(SubSeq(FileLines[s], 4, Len(FileLines[s])))

SectionBody(s) == LinesText(s + 1, NextStart(s) - 1)

\* the sections the scanning rule describes: one per start (file start or
\* heading) that is followed by at least one line, in file order
RuleSections ==
    LET Test(s) == (s = 0 \/ s \in HeadingAt) /\ NextStart(s) > s + 1
        starts == SelectSeq([i \in 1..(Len(FileLines) + 1) |-> i - 1], Test)
    IN  [k \in 1..Len(starts) |->
            [title |-> SectionTitle(starts[k]),
             content |-> SectionBody(starts[k])]]

FirstHeading == CHOOSE h \in HeadingAt : \A g \in HeadingAt : h <= g
SecondHeading == CHOOSE h \in HeadingAt : \A g \in HeadingAt : g <= h

\* t holds b as a contiguous piece
Contains(t, b) ==
    \E a \in 1..(Len(t) - Len(b) + 1) : SubSeq(t, a, a + Len(b) - 1) = b

\* the k-th chunk after the knowledge-base chunks
DocChunk(k) == chunks[Len(KNOWLEDGE_BASE) + k]
DocTitle(k) == chunk_metadata[Len(KNOWLEDGE_BASE) + k].title

\* C11 (as claimed): load_markdown_docs returns the sections of the scanning
\* rule, and a built file with two second-level headings, each followed by a
\* body longer than 50 characters, gives exactly 2 chunks, titled per heading
\* and containing the body verbatim.
C11_TwoHeadingsTwoChunks ==
    /\ docs.called => docs.list = RuleSections
    /\ ( /\ BuildCompleted
         /\ Cardinality(HeadingAt) = 2
         /\ Len(SectionBody(FirstHeading)) > MinSectionLen
         /\ Len(SectionBody(SecondHeading)) > MinSectionLen )
       => /\ Len(chunks) = Len(KNOWLEDGE_BASE) + 2
          /\ DocTitle(1) = SectionTitle(FirstHeading)
          /\ DocTitle(2) = SectionTitle(SecondHeading)
          /\ Contains(DocChunk(1), SectionBody(FirstHeading))
          /\ Contains(DocChunk(2), SectionBody(SecondHeading))

\* C11 (amended): load_markdown_docs returns the sections of the scanning
\* rule, and a built file with two second-level headings, each followed by a
\* body longer than 50 characters after trimming, and with no text before the
\* first heading that is longer than 50 characters after trimming, gives
\* exactly 2 chunks: the trimmed heading text, a newline and the trimmed body.
C11_MarkdownSections ==
    /\ docs.called => docs.list = RuleSections
    /\ ( /\ BuildCompleted
         /\ Cardinality(HeadingAt) = 2
         /\ TrimmedLen(SectionBody(FirstHeading)) > MinSectionLen
         /\ TrimmedLen(SectionBody(SecondHeading)) > MinSectionLen
         /\ TrimmedLen(LinesText(1, FirstHeading - 1)) <= MinSectionLen )
       => /\ Len(chunks) = Len(KNOWLEDGE_BASE) + 2
          /\ DocTitle(1) = SectionTitle(FirstHeading)
          /\ DocTitle(2) = SectionTitle(SecondHeading)
          /\ DocChunk(1) = SectionTitle(FirstHeading) \o <<"\n">>
                              \o TrimmedText(SectionBody(FirstHeading))
          /\ DocChunk(2) = SectionTitle(SecondHeading) \o <<"\n">>
                              \o TrimmedText(SectionBody(SecondHeading))
          /\ chunk_metadata[Len(chunks)].source = "docs"

\* a file with a short preface and two headings with padded bodies, scanned
\* and built
C11_Witness ==
    /\ docs.called
    /\ BuildCompleted
    /\ FileLines = << <<>>, Heading(<<"B", " ">>), LongBody,
                      Heading(<<"A">>), LongBody >>
    /\ Len(docs.list) = 3
    /\ Len(chunks) = Len(KNOWLEDGE_BASE) + 2
    /\ DocTitle(1) = <<"B">>

====
